---- MODULE Spec2Model ----
(***************************************************************************)
(* Model of zink's wasm -> EVM operator visitor (codegen/src/visitor) and  *)
(* of the ABI selector (abi/src/selector.rs).                              *)
(*                                                                         *)
(* Identifiers are strings and the macros' `paste!` concatenation is \o,   *)
(* so the set of generated visitor methods is computed by expanding the    *)
(* macro arms exactly as rustc does.                                       *)
(***************************************************************************)
EXTENDS Integers, Sequences, FiniteSets, TLC

VARIABLES
    program,  \* the function body handed to the visitor, instruction by instruction
    pc,       \* the position of the next instruction to visit
    calls,    \* the assembler primitives and handlers invoked so far, in order
    output,   \* what the last visitor method returned
    abi,      \* the function descriptor (Abi) at hand
    sigOut,   \* what abi.signature() returned, <<>> before the call
    selOut,   \* what abi.selector() returned, <<>> before the call
    other     \* an earlier descriptor with what its two methods returned

vars == <<program, pc, calls, output, abi, sigOut, selOut, other>>

visitorVars == <<program, pc, calls, output>>

abiVars == <<abi, sigOut, selOut, other>>

(***************************************************************************)
(* Bounds of the model.                                                    *)
(***************************************************************************)
\* longest function body (instruction stream) that is translated
MaxOps == 3
\* most parameters of a function descriptor
MaxInputs == 2
\* length of the longest function name
LongLen == 136

(***************************************************************************)
(* wasmparser::for_each_operator!: the operator list handed to             *)
(* impl_visit_operator, each entry tagged with its proposal.               *)
(***************************************************************************)
Param(name, ty) == [name |-> name, ty |-> ty]

Op(proposal, visit, params) == [proposal |-> proposal, visit |-> visit, params |-> params]

IntOps == <<"eqz", "eq", "ne", "lt_s", "lt_u", "gt_s", "gt_u", "le_s", "le_u", "ge_s", "ge_u",
            "clz", "ctz", "popcnt", "add", "sub", "mul", "div_s", "div_u", "rem_s", "rem_u",
            "and", "or", "xor", "shl", "shr_s", "shr_u", "rotl", "rotr">>

FloatOps == <<"eq", "ne", "lt", "gt", "le", "ge",
              "abs", "neg", "ceil", "floor", "trunc", "nearest", "sqrt",
              "add", "sub", "mul", "div", "min", "max", "copysign">>

MvpTyped(ty, names) == [i \in 1..Len(names) |-> Op("mvp", "visit_" \o ty \o "_" \o names[i], <<>>)]

MvpPlain(names) == [i \in 1..Len(names) |-> Op("mvp", "visit_" \o names[i], <<>>)]

MvpControl ==
    MvpPlain(<<"unreachable", "nop", "block", "loop", "if", "else", "end", "br", "br_if",
               "br_table", "return", "call", "call_indirect", "drop", "select",
               "local_get", "local_set", "local_tee", "global_get", "global_set">>)

MvpMemory ==
    MvpPlain(<<"i32_load", "i64_load", "f32_load", "f64_load",
               "i32_load8_s", "i32_load8_u", "i32_load16_s", "i32_load16_u",
               "i64_load8_s", "i64_load8_u", "i64_load16_s", "i64_load16_u",
               "i64_load32_s", "i64_load32_u",
               "i32_store", "i64_store", "f32_store", "f64_store",
               "i32_store8", "i32_store16", "i64_store8", "i64_store16", "i64_store32",
               "memory_size", "memory_grow",
               "i32_const", "i64_const", "f32_const", "f64_const">>)

MvpConversions ==
    MvpPlain(<<"i32_wrap_i64",
               "i32_trunc_f32_s", "i32_trunc_f32_u", "i32_trunc_f64_s", "i32_trunc_f64_u",
               "i64_extend_i32_s", "i64_extend_i32_u",
               "i64_trunc_f32_s", "i64_trunc_f32_u", "i64_trunc_f64_s", "i64_trunc_f64_u",
               "f32_convert_i32_s", "f32_convert_i32_u", "f32_convert_i64_s", "f32_convert_i64_u",
               "f32_demote_f64",
               "f64_convert_i32_s", "f64_convert_i32_u", "f64_convert_i64_s", "f64_convert_i64_u",
               "f64_promote_f32",
               "i32_reinterpret_f32", "i64_reinterpret_f64",
               "f32_reinterpret_i32", "f64_reinterpret_i64">>)

\* operators of the post-MVP proposals (one or more of each proposal)
NonMvp ==
    << Op("sign_extension", "visit_i32_extend8_s", <<>>),
       Op("sign_extension", "visit_i64_extend32_s", <<>>),
       Op("saturating_float_to_int", "visit_i32_trunc_sat_f32_s", <<>>),
       Op("bulk_memory", "visit_memory_copy",
          <<Param("dst_mem", "u32"), Param("src_mem", "u32")>>),
       Op("bulk_memory", "visit_data_drop", <<Param("data_index", "u32")>>),
       Op("reference_types", "visit_ref_is_null", <<>>),
       Op("tail_call", "visit_return_call", <<Param("function_index", "u32")>>),
       Op("exceptions", "visit_rethrow", <<Param("relative_depth", "u32")>>),
       Op("threads", "visit_i32_atomic_load", <<Param("memarg", "MemArg")>>),
       Op("simd", "visit_v128_load", <<Param("memarg", "MemArg")>>),
       Op("relaxed_simd", "visit_f32x4_relaxed_min", <<>>) >>

ForEachOperator ==
    MvpControl \o MvpMemory
        \o MvpTyped("i32", IntOps) \o MvpTyped("i64", IntOps)
        \o MvpTyped("f32", FloatOps) \o MvpTyped("f64", FloatOps)
        \o MvpConversions \o NonMvp

MvpVisits == {ForEachOperator[i].visit : i \in {j \in DOMAIN ForEachOperator : ForEachOperator[j].proposal = "mvp"}}

NonMvpVisits == {ForEachOperator[i].visit : i \in {j \in DOMAIN ForEachOperator : ForEachOperator[j].proposal # "mvp"}}

(***************************************************************************)
(* impl_visit_operator!: skips every @mvp entry and defines, for an entry  *)
(* of any other proposal, a visitor whose body is `trace!(..); Ok(())`.    *)
(***************************************************************************)
\* the arm taken for one entry: nothing for @mvp, a visitor otherwise
ImplVisitEntry(e) ==
    IF e.proposal = "mvp" THEN {}
    ELSE { [visit  |-> e.visit,
            kind   |-> "proposal",
            field  |-> <<>>,
            prim   |-> "",
            params |-> e.params,
            passed |-> <<>>] }

\* the recursion over `$($rest)*`, entry by entry until `() => {}`
impl_visit_operator(rest) == UNION {ImplVisitEntry(rest[i]) : i \in DOMAIN rest}

(***************************************************************************)
(* map_wasm_operators!: one operator per macro arm.  Each arm yields the   *)
(* set of visitor methods it defines; a method is the record               *)
(*   visit  - the method's name                                            *)
(*   kind   - which arm wrote its body                                     *)
(*   field  - the path of the receiver of the call in the body             *)
(*   prim   - the method called in the body                                *)
(*   params - the method's parameters (after &mut self)                    *)
(*   passed - the names of the parameters handed to the call               *)
(***************************************************************************)
NoArgs == <<>>

MemArgParam == <<Param("_arg", "MemArg")>>

\* @basic: fn visit_<ty>_<wasm>(&mut self, args..) { self.masm._<evm>()?; Ok(()) }
Basic(ty, wasm, evm, args) ==
    { [visit  |-> "visit_" \o ty \o "_" \o wasm,
       kind   |-> "basic",
       field  |-> <<"masm">>,
       prim   |-> "_" \o evm,
       params |-> args,
       passed |-> <<>>] }

Integer32(wasm, evm, args) == Basic("i32", wasm, evm, args)

Integer64(wasm, evm, args) == Basic("i64", wasm, evm, args)

Signed(wasm, evm, args) == Integer32(wasm, evm, args) \cup Integer64(wasm, evm, args)

Integer(wasm, evm, args) ==
    Signed(wasm \o "_s", evm, args) \cup Signed(wasm \o "_u", evm, args)

Float32(wasm, evm, args) == Basic("f32", wasm, evm, args)

Float64(wasm, evm, args) == Basic("f64", wasm, evm, args)

Float(wasm, evm, args) == Float32(wasm, evm, args) \cup Float64(wasm, evm, args)

SignedAndFloat(op) == Signed(op, op, NoArgs) \cup Float(op, op, NoArgs)

\* @field: fn visit_<op>(&mut self, args..) { self.<field>._<op>(args..)?; Ok(()) }
Field(field, op, args) ==
    { [visit  |-> "visit_" \o op,
       kind   |-> "field",
       field  |-> field,
       prim   |-> "_" \o op,
       params |-> args,
       passed |-> [i \in 1..Len(args) |-> args[i].name]] }

ExpandSignedAndFloat(op) == SignedAndFloat(op)

ExpandXdr(xdr) ==
    Signed(xdr \o "_s", "s" \o xdr, NoArgs)
        \cup Signed(xdr \o "_u", xdr, NoArgs)
        \cup Float(xdr, xdr, NoArgs)

ExpandSigned(signed) == Signed(signed, signed, NoArgs)

ExpandInteger(integer) == Integer(integer, integer, NoArgs)

ExpandFloat(float) == Float(float, float, NoArgs)

\* m = <<wasm, evm>> for `wasm => evm`
ExpandMapAll(m) == Integer(m[1], m[2], NoArgs) \cup Float(m[1], m[2], NoArgs)

ExpandMapInteger(m) ==
    Signed(m[1] \o "_s", "s" \o m[2], NoArgs) \cup Signed(m[1] \o "_u", m[2], NoArgs)

ExpandMemAll(mem) == Signed(mem, mem, MemArgParam) \cup Float(mem, mem, MemArgParam)

ExpandMemInteger(mem) == Integer(mem, mem, MemArgParam)

ExpandMemInteger64(mem) ==
    Integer64(mem \o "_s", mem, MemArgParam) \cup Integer64(mem \o "_u", mem, MemArgParam)

ExpandMemSigned(mem) == Signed(mem, mem, MemArgParam)

ExpandMemSignedAndFloat(mem) == Signed(mem, mem, MemArgParam) \cup Float(mem, mem, MemArgParam)

ExpandMemSigned64(mem) == Integer64(mem, mem, MemArgParam)

\* e = <<op, args>>
ExpandMasm(e) == Field(<<"masm">>, e[1], e[2])

ExpandGlobal(e) == Field(<<>>, e[1], e[2])

\* the main arm (mod.rs 89-174), in the order of its expansion
map_wasm_operators(t) ==
    UNION { ExpandSignedAndFloat(t.signed_and_float[i]) : i \in DOMAIN t.signed_and_float }
        \cup UNION { ExpandXdr(t.xdr[i]) : i \in DOMAIN t.xdr }
        \cup UNION { ExpandSigned(t.signed[i]) : i \in DOMAIN t.signed }
        \cup UNION { ExpandInteger(t.integer[i]) : i \in DOMAIN t.integer }
        \cup UNION { ExpandFloat(t.float[i]) : i \in DOMAIN t.float }
        \cup UNION { ExpandMapAll(t.map_all[i]) : i \in DOMAIN t.map_all }
        \cup UNION { ExpandMapInteger(t.map_integer[i]) : i \in DOMAIN t.map_integer }
        \cup UNION { ExpandMemAll(t.mem_all[i]) : i \in DOMAIN t.mem_all }
        \cup UNION { ExpandMemInteger(t.mem_integer[i]) : i \in DOMAIN t.mem_integer }
        \cup UNION { ExpandMemInteger64(t.mem_integer64[i]) : i \in DOMAIN t.mem_integer64 }
        \cup UNION { ExpandMemSigned(t.mem_signed[i]) : i \in DOMAIN t.mem_signed }
        \cup UNION { ExpandMemSignedAndFloat(t.mem_signed_and_float[i]) : i \in DOMAIN t.mem_signed_and_float }
        \cup UNION { ExpandMemSigned64(t.mem_signed64[i]) : i \in DOMAIN t.mem_signed64 }
        \cup UNION { ExpandMasm(t.masm[i]) : i \in DOMAIN t.masm }
        \cup UNION { ExpandGlobal(t.global[i]) : i \in DOMAIN t.global }

\* the invocation inside `impl VisitOperator for CodeGen` (mod.rs 182-281)
Table ==
    [ xdr              |-> <<"div", "lt", "gt">>,
      signed           |-> <<"and", "clz", "ctz", "eqz", "or", "popcnt", "rotl", "rotr",
                             "shl", "xor">>,
      integer          |-> <<"shr", "trunc_f32", "trunc_f64">>,
      float            |-> <<"abs", "ceil", "copysign", "floor", "max", "min", "nearest",
                             "neg", "sqrt",
                             "convert_i32_s", "convert_i32_u", "convert_i64_s", "convert_i64_u",
                             "trunc">>,
      signed_and_float |-> <<"add", "sub", "mul", "eq", "ne">>,
      map_all          |-> << <<"ge", "sgt">>, <<"le", "slt">> >>,
      map_integer      |-> << <<"rem", "mod">> >>,
      mem_all          |-> <<"load">>,
      mem_integer      |-> <<"load8", "load16">>,
      mem_integer64    |-> <<"load32">>,
      mem_signed       |-> <<"store8", "store16">>,
      mem_signed64     |-> <<"store32">>,
      mem_signed_and_float |-> <<"store">>,
      masm |-> <<
          <<"drop", NoArgs>>,
          <<"memory_grow", <<Param("mem", "u32"), Param("mem_byte", "u8")>> >>,
          <<"memory_size", <<Param("mem", "u32"), Param("mem_byte", "u8")>> >>,
          <<"i32_const", <<Param("value", "i32")>> >>,
          <<"i64_const", <<Param("value", "i64")>> >>,
          <<"f32_const", <<Param("value", "Ieee32")>> >>,
          <<"f64_const", <<Param("value", "Ieee64")>> >>,
          <<"i32_wrap_i64", NoArgs>>,
          <<"i64_extend_i32_s", NoArgs>>,
          <<"i64_extend_i32_u", NoArgs>>,
          <<"f32_demote_f64", NoArgs>>,
          <<"f64_promote_f32", NoArgs>>,
          <<"i32_reinterpret_f32", NoArgs>>,
          <<"i64_reinterpret_f64", NoArgs>>,
          <<"f32_reinterpret_i32", NoArgs>>,
          <<"f64_reinterpret_i64", NoArgs>>,
          <<"return", NoArgs>> >>,
      global |-> <<
          <<"else", NoArgs>>, <<"select", NoArgs>>, <<"end", NoArgs>>, <<"nop", NoArgs>>,
          <<"unreachable", NoArgs>>,
          <<"if", <<Param("blockty", "BlockType")>> >>,
          <<"block", <<Param("blockty", "BlockType")>> >>,
          <<"loop", <<Param("blockty", "BlockType")>> >>,
          <<"br", <<Param("relative_depth", "u32")>> >>,
          <<"br_if", <<Param("relative_depth", "u32")>> >>,
          <<"br_table", <<Param("table", "BrTable")>> >>,
          <<"local_get", <<Param("local_index", "u32")>> >>,
          <<"local_set", <<Param("local_index", "u32")>> >>,
          <<"local_tee", <<Param("local_index", "u32")>> >>,
          <<"global_get", <<Param("global_index", "u32")>> >>,
          <<"global_set", <<Param("global_index", "u32")>> >>,
          <<"call", <<Param("func_index", "u32")>> >>,
          <<"call_indirect", <<Param("type_index", "u32"), Param("table_index", "u32"),
                               Param("table_byte", "u8")>> >> >> ]

MappedVisitors == map_wasm_operators(Table)

ProposalVisitors == impl_visit_operator(ForEachOperator)

\* every method of `impl VisitOperator for CodeGen`
Visitors == ProposalVisitors \cup MappedVisitors

VisitorOf(visit) == CHOOSE v \in Visitors : v.visit = visit

(***************************************************************************)
(* The instruction stream.  An instruction is a visitor method's name and  *)
(* the immediates the parser hands to it; an immediate is a tuple of       *)
(* numbers (MemArg: <<align, offset>>).                                    *)
(***************************************************************************)
MemArgs == { <<2, 0>>, <<0, 8>> }

ArgValues(ty) == IF ty = "MemArg" THEN MemArgs ELSE { <<0>>, <<1>> }

ArgTuples(params) ==
    { a \in [1..Len(params) -> MemArgs \cup { <<0>>, <<1>> }] :
        \A i \in 1..Len(params) : a[i] \in ArgValues(params[i].ty) }

Instr(visit, args) == [visit |-> visit, args |-> args]

Instructions == UNION { {Instr(v.visit, a) : a \in ArgTuples(v.params)} : v \in Visitors }

\* the instructions of the longer function bodies
BodyInstructions ==
    { Instr("visit_i32_add", <<>>),
      Instr("visit_i64_shr_s", <<>>),
      Instr("visit_i32_load", << <<2, 0>> >>),
      Instr("visit_i32_load", << <<0, 8>> >>),
      Instr("visit_drop", <<>>),
      Instr("visit_i32_const", << <<1>> >>),
      Instr("visit_br", << <<0>> >>),
      Instr("visit_memory_copy", << <<0>>, <<1>> >>) }

RECURSIVE Bodies(_)
Bodies(n) ==
    IF n = 0 THEN { <<>> }
    ELSE LET shorter == Bodies(n - 1)
         IN  shorter \cup { Append(b, i) : b \in {c \in shorter : Len(c) = n - 1},
                                           i \in BodyInstructions }

\* the function bodies translated: any single instruction, or a body of up
\* to MaxOps of the BodyInstructions
Programs == { <<i>> : i \in Instructions } \cup Bodies(MaxOps)

\* what an assembler primitive or a CodeGen handler may return
Errors == { "BufferOverflow", "StackOverflow" }

Ok == <<"Ok">>

Err(e) == <<"Err", e>>

CallResults == { Ok } \cup { Err(e) : e \in Errors }

(***************************************************************************)
(* The bodies of the generated visitor methods.                            *)
(***************************************************************************)
ParamIndex(v, name) == CHOOSE i \in 1..Len(v.params) : v.params[i].name = name

\* the argument list written in the call expression of v's body
PassedArgs(v, args) == [i \in 1..Len(v.passed) |-> args[ParamIndex(v, v.passed[i])]]

\* the call `self.<field>.<prim>(<passed>)`, and what it returned
Invocation(v, args, r) ==
    [field |-> v.field, prim |-> v.prim, args |-> PassedArgs(v, args), ret |-> r]

\* mutant of Invoke: the call is put in front of the earlier ones
InvokeFirst(log, v, args, r) == <<Invocation(v, args, r)>> \o log

\* the assembler (or handler) is entered: the call joins what was invoked so far
Invoke(log, v, args, r) == Append(log, Invocation(v, args, r))

\* mutant of Question: the call's failure is dropped (`let _ = <call>;`)
QuestionSwallow(r) == Ok

\* `<call>?; Ok(())`: an Err returns from the visitor as it is, Ok goes on to Ok(())
Question(r) == IF r[1] = "Err" THEN r ELSE Ok

\* the body written by impl_visit_operator: `trace!(..); Ok(())`
ProposalBody == Ok

Current == program[pc]

\* the parser calls one visitor method per instruction, in program order, and
\* stops at the first Err a method returns
CanVisit == pc <= Len(program) /\ output[1] # "Err"

\* a method written by the @basic arm is called
VisitBasic(r) ==
    /\ CanVisit
    /\ VisitorOf(Current.visit).kind = "basic"
    /\ calls' = Invoke(calls, VisitorOf(Current.visit), Current.args, r)
    /\ output' = Question(r)
    /\ pc' = pc + 1
    /\ UNCHANGED <<program, abiVars>>

\* a method written by the @field arm is called
VisitField(r) ==
    /\ CanVisit
    /\ VisitorOf(Current.visit).kind = "field"
    /\ calls' = Invoke(calls, VisitorOf(Current.visit), Current.args, r)
    /\ output' = Question(r)
    /\ pc' = pc + 1
    /\ UNCHANGED <<program, abiVars>>

\* a method written by impl_visit_operator is called
VisitProposal ==
    /\ CanVisit
    /\ VisitorOf(Current.visit).kind = "proposal"
    /\ output' = ProposalBody
    /\ pc' = pc + 1
    /\ UNCHANGED <<program, calls, abiVars>>

(***************************************************************************)
(* sha3::Keccak256 as keccak256() uses it: Keccak-f[1600] over a state of  *)
(* 200 bytes (lane (x, y) is bytes 8(x+5y) .. 8(x+5y)+7, little endian),   *)
(* rate 136 bytes, padding 0x01 .. 0x80, 32 bytes of output.               *)
(***************************************************************************)
Byte == 0..255

RECURSIVE XorBits(_, _, _)
XorBits(a, b, n) ==
    IF n = 0 THEN 0
    ELSE (IF (a % 2) # (b % 2) THEN 1 ELSE 0) + 2 * XorBits(a \div 2, b \div 2, n - 1)

RECURSIVE AndNotBits(_, _, _)
AndNotBits(a, b, n) ==
    IF n = 0 THEN 0
    ELSE (IF (a % 2) = 0 /\ (b % 2) = 1 THEN 1 ELSE 0)
           + 2 * AndNotBits(a \div 2, b \div 2, n - 1)

\* a ^ b and (!a) & b on bytes
Xor8 == [a \in Byte |-> [b \in Byte |-> XorBits(a, b, 8)]]

AndNot8 == [a \in Byte |-> [b \in Byte |-> AndNotBits(a, b, 8)]]

Pow2 == [s \in 0..8 |-> 2^s]

\* the rotation offsets, by lane number x + 5y
Rho == [l \in 0..24 |->
         << 0, 1, 62, 28, 27,
            36, 44, 6, 55, 20,
            3, 10, 43, 25, 39,
            41, 45, 15, 21, 8,
            18, 2, 61, 56, 14 >>[l + 1]]

\* the 24 round constants, as little endian bytes
RC == << <<1,0,0,0,0,0,0,0>>, <<130,128,0,0,0,0,0,0>>, <<138,128,0,0,0,0,0,128>>,
         <<0,128,0,128,0,0,0,128>>, <<139,128,0,0,0,0,0,0>>, <<1,0,0,128,0,0,0,0>>,
         <<129,128,0,128,0,0,0,128>>, <<9,128,0,0,0,0,0,128>>, <<138,0,0,0,0,0,0,0>>,
         <<136,0,0,0,0,0,0,0>>, <<9,128,0,128,0,0,0,0>>, <<10,0,0,128,0,0,0,0>>,
         <<139,128,0,128,0,0,0,0>>, <<139,0,0,0,0,0,0,128>>, <<137,128,0,0,0,0,0,128>>,
         <<3,128,0,0,0,0,0,128>>, <<2,128,0,0,0,0,0,128>>, <<128,0,0,0,0,0,0,128>>,
         <<10,128,0,0,0,0,0,0>>, <<10,0,0,128,0,0,0,128>>, <<129,128,0,128,0,0,0,128>>,
         <<128,128,0,0,0,0,0,128>>, <<1,0,0,128,0,0,0,0>>, <<8,128,0,128,0,0,0,128>> >>

\* theta: the column parities C[x], D[x] = C[x-1] ^ rol(C[x+1], 1), A[x,y] ^= D[x]
ThetaC(A) ==
    [j \in 0..39 |-> Xor8[Xor8[Xor8[Xor8[A[j]][A[j + 40]]][A[j + 80]]][A[j + 120]]][A[j + 160]]]

ThetaD(C) ==
    [j \in 0..39 |->
        Xor8[C[8 * (((j \div 8) + 4) % 5) + (j % 8)]]
            [((C[8 * (((j \div 8) + 1) % 5) + (j % 8)] * 2) % 256)
               + (C[8 * (((j \div 8) + 1) % 5) + ((j + 7) % 8)] \div 128)]]

ThetaXor(A, D) == [i \in 0..199 |-> Xor8[A[i]][D[i % 40]]]

Theta(A) == CHOOSE T \in { ThetaXor(A, D) : D \in { ThetaD(C) : C \in {ThetaC(A)} } } : TRUE

\* rho and pi: B[y, 2x+3y] = rol(A[x, y], Rho[x, y])
RhoPi(A) ==
    [i \in 0..199 |->
        LET X == (i \div 8) % 5
            Y == i \div 40
            k == i % 8
            sx == (X + 3 * Y) % 5
            src == 8 * (sx + 5 * X)
            r == Rho[sx + 5 * X]
            q == r \div 8
            s == r % 8
        IN  ((A[src + ((k + 8 - q) % 8)] * Pow2[s]) % 256)
              + (A[src + ((k + 15 - q) % 8)] \div Pow2[8 - s])]

\* chi: A[x, y] = B[x, y] ^ (!B[x+1, y] & B[x+2, y])
Chi(B) ==
    [i \in 0..199 |->
        LET x == (i \div 8) % 5
            row == 40 * (i \div 40)
            k == i % 8
        IN  Xor8[B[i]][AndNot8[B[row + 8 * ((x + 1) % 5) + k]][B[row + 8 * ((x + 2) % 5) + k]]]]

\* iota: A[0, 0] ^= RC[r]
Iota(A, r) == [i \in 0..199 |-> IF i < 8 THEN Xor8[A[i]][RC[r + 1][i + 1]] ELSE A[i]]

Round(A, r) ==
    CHOOSE R \in { Iota(c, r) : c \in { Chi(b) : b \in { RhoPi(t) : t \in {Theta(A)} } } } : TRUE

RECURSIVE Rounds(_, _)
Rounds(A, r) ==
    IF r = 24 THEN A
    ELSE CHOOSE R \in { Rounds(B, r + 1) : B \in {Round(A, r)} } : TRUE

KeccakF(A) == Rounds(A, 0)

Rate == 136

\* pad10*1 behind the Keccak domain byte 0x01
Pad(m) ==
    LET n == Len(m)
        total == Rate * ((n \div Rate) + 1)
    IN  [i \in 1..total |->
            IF i <= n THEN m[i]
            ELSE (IF i = n + 1 THEN 1 ELSE 0) + (IF i = total THEN 128 ELSE 0)]

XorBlock(A, p, off) ==
    [i \in 0..199 |-> IF i < Rate THEN Xor8[A[i]][p[off + i + 1]] ELSE A[i]]

RECURSIVE Absorb(_, _, _)
Absorb(A, p, off) ==
    IF off >= Len(p) THEN A
    ELSE CHOOSE R \in { Absorb(B, p, off + Rate) :
                          B \in { KeccakF(X) : X \in {XorBlock(A, p, off)} } } : TRUE

\* Keccak256::new(); update(input); finalize().into()
keccak256(input) ==
    CHOOSE h \in { [i \in 1..32 |-> A[i - 1]] :
                     A \in { Absorb(S, P, 0) : S \in {[i \in 0..199 |-> 0]},
                                               P \in {Pad(input)} } } : TRUE

(***************************************************************************)
(* Abi.  A String is the sequence of its characters; as_bytes() is its     *)
(* UTF-8 encoding (all characters here are ASCII).                         *)
(***************************************************************************)
Lower == <<"a", "b", "c", "d", "e", "f", "g", "h", "i", "j", "k", "l", "m",
           "n", "o", "p", "q", "r", "s", "t", "u", "v", "w", "x", "y", "z">>

Digits == <<"0", "1", "2", "3", "4", "5", "6", "7", "8", "9">>

Utf8(c) ==
    IF \E i \in DOMAIN Lower : Lower[i] = c
    THEN 96 + (CHOOSE i \in DOMAIN Lower : Lower[i] = c)
    ELSE IF \E i \in DOMAIN Digits : Digits[i] = c
    THEN 47 + (CHOOSE i \in DOMAIN Digits : Digits[i] = c)
    ELSE CASE c = "_" -> 95
           [] c = "(" -> 40
           [] c = ")" -> 41
           [] c = "," -> 44

as_bytes(str) == [i \in 1..Len(str) |-> Utf8(str[i])]

\* mutant of join: the separator follows every element
RECURSIVE joinTrailing(_, _)
joinTrailing(v, sep) ==
    IF v = <<>> THEN <<>> ELSE Head(v) \o sep \o joinTrailing(Tail(v), sep)

\* [&str]::join
RECURSIVE join(_, _)
join(v, sep) ==
    IF v = <<>> THEN <<>>
    ELSE IF Len(v) = 1 THEN Head(v)
    ELSE Head(v) \o sep \o join(Tail(v), sep)

\* mutant of InputTypes: the arguments' names
InputNames(inputs) == [i \in 1..Len(inputs) |-> inputs[i].name]

\* .iter().map(|i| i.ty.as_ref()).collect::<Vec<_>>()
InputTypes(inputs) == [i \in 1..Len(inputs) |-> inputs[i].ty]

\* Abi::signature
signature(a) == a.name \o <<"(">> \o join(InputTypes(a.inputs), <<",">>) \o <<")">>

(***************************************************************************)
(* The descriptors the two methods are called on.                          *)
(***************************************************************************)
Names ==
    { <<"b", "u", "r", "n">>,
      <<"c", "o", "l", "l", "a", "t", "e", "_", "p", "r", "o", "p", "a", "g", "a", "t", "e",
        "_", "s", "t", "o", "r", "a", "g", "e">>,
      <<"r", "u", "n", "_", "r", "e", "v", "e", "r", "t">>,
      [i \in 1..LongLen |-> "a"] }

Uint256 == <<"u", "i", "n", "t", "2", "5", "6">>

Bytes16 == <<"b", "y", "t", "e", "s", "1", "6">>

Input(name, ty) == [name |-> name, ty |-> ty]

Inputs ==
    { Input(<<"v", "a", "l", "u", "e">>, Uint256),
      Input(<<"a", "m", "o", "u", "n", "t">>, Uint256),
      Input(<<"d", "a", "t", "a">>, Bytes16) }

RECURSIVE InputLists(_)
InputLists(n) ==
    IF n = 0 THEN { <<>> }
    ELSE LET shorter == InputLists(n - 1)
         IN  shorter \cup { Append(l, i) : l \in {m \in shorter : Len(m) = n - 1}, i \in Inputs }

Descriptors == { [name |-> n, inputs |-> l] : n \in Names, l \in InputLists(MaxInputs) }

\* every input keccak256() is called on, and its digest, evaluated once
HashedInputs == { as_bytes(signature(d)) : d \in Descriptors }

Digests == [b \in HashedInputs |-> keccak256(b)]

\* mutant of parse: the last four bytes of the digest
parseTail(bytes) == SubSeq(Digests[bytes], 29, 32)

\* selector.copy_from_slice(&keccak256(bytes)[..4])
parse(bytes) == SubSeq(Digests[bytes], 1, 4)

\* Abi::selector
selector(a) == parse(as_bytes(signature(a)))

NoAbi == [name |-> <<>>, inputs |-> <<>>]

NoOther == [abi |-> NoAbi, sig |-> <<>>, sel |-> <<>>]

\* abi.signature() is called
CallSignature ==
    /\ abi # NoAbi
    /\ sigOut = <<>>
    /\ sigOut' = signature(abi)
    /\ UNCHANGED <<abi, selOut, other, visitorVars>>

\* abi.selector() is called
CallSelector ==
    /\ abi # NoAbi
    /\ selOut = <<>>
    /\ selOut' = selector(abi)
    /\ UNCHANGED <<abi, sigOut, other, visitorVars>>

\* the descriptor and its results are kept and the next descriptor is taken up
Another(d) ==
    /\ sigOut # <<>>
    /\ selOut # <<>>
    /\ other = NoOther
    /\ other' = [abi |-> abi, sig |-> sigOut, sel |-> selOut]
    /\ abi' = d
    /\ sigOut' = <<>>
    /\ selOut' = <<>>
    /\ UNCHANGED visitorVars

InitAbi ==
    /\ abi \in Descriptors
    /\ sigOut = <<>>
    /\ selOut = <<>>
    /\ other = NoOther
    /\ program = <<>>
    /\ pc = 1
    /\ calls = <<>>
    /\ output = <<"None">>

NextAbi ==
    \/ CallSignature
    \/ CallSelector
    \/ \E d \in Descriptors : Another(d)

SpecAbi == InitAbi /\ [][NextAbi]_vars

Init ==
    /\ program \in Programs
    /\ pc = 1
    /\ calls = <<>>
    /\ output = <<"None">>
    /\ abi = NoAbi
    /\ sigOut = <<>>
    /\ selOut = <<>>
    /\ other = NoOther

Next ==
    \/ \E r \in CallResults : VisitBasic(r)
    \/ \E r \in CallResults : VisitField(r)
    \/ VisitProposal

Spec == Init /\ [][Next]_vars

(***************************************************************************)
(* Claims about the visitor.                                               *)
(***************************************************************************)
Visited == pc > 1

Last == program[pc - 1]

LastVisitor == VisitorOf(Last.visit)

LastCall == calls[Len(calls)]

IsMemoryAccess(v) ==
    /\ v \in MappedVisitors
    /\ \E i \in 1..Len(v.params) : v.params[i].ty = "MemArg"

IntWidths == {"i32", "i64"}

PrimOf(visit) == VisitorOf(visit).prim

\* C1: a visit of an operator outside the MVP proposal fails with
\* UnsupportedOperator, whatever was translated before it; it is never Ok
C1_NonMvpFails ==
    (Visited /\ Last.visit \in NonMvpVisits) => output = Err("UnsupportedOperator")

\* C2: the MemArg a memory access visitor receives is handed unchanged to the
\* assembler primitive it invokes
C2_MemArgPassed ==
    (Visited /\ IsMemoryAccess(LastVisitor)) =>
        /\ calls # <<>>
        /\ LastCall.prim = LastVisitor.prim
        /\ LastCall.args = Last.args

\* C3: for lt, gt, le, ge, div and rem of either integer width the primitive
\* invoked for the _s operator is not the primitive of its _u operator
C3_SignedUnsignedDiffer ==
    \A w \in IntWidths, op \in {"lt", "gt", "le", "ge", "div", "rem"} :
        (Visited /\ Last.visit = "visit_" \o w \o "_" \o op \o "_s") =>
            /\ calls # <<>>
            /\ LastCall.prim # PrimOf("visit_" \o w \o "_" \o op \o "_u")

\* C4: for either integer width the primitive invoked for shr_s is not the
\* primitive of shr_u
C4_ShrSignedDiffers ==
    \A w \in IntWidths :
        (Visited /\ Last.visit = "visit_" \o w \o "_shr_s") =>
            /\ calls # <<>>
            /\ LastCall.prim # PrimOf("visit_" \o w \o "_shr_u")

\* C8: a visit of an MVP operator invokes exactly one primitive or handler; it
\* returns that call's failure as it is when the call fails and Ok when the call
\* succeeds, so it fails only if the call does and the lookup itself never fails
C8_FailureIsThePrimitives ==
    (Visited /\ Last.visit \in MvpVisits) =>
        /\ LastVisitor \in MappedVisitors
        /\ calls # <<>>
        /\ LastCall.prim = LastVisitor.prim
        /\ LastCall.ret[1] = "Err" => output = LastCall.ret
        /\ LastCall.ret = Ok => output = Ok
        /\ output \in {Ok, LastCall.ret}
        /\ Cardinality({i \in 1..(pc - 1) : program[i].visit \in MvpVisits}) = Len(calls)

C8_Witness ==
    /\ Visited
    /\ Last.visit \in MvpVisits
    /\ output = Err("StackOverflow")
    /\ LastCall.ret = Err("StackOverflow")

IsPrefix(s, t) == Len(s) <= Len(t) /\ \A i \in 1..Len(s) : s[i] = t[i]

AllMappedAndOk ==
    /\ \A i \in 1..(pc - 1) : program[i].visit \in {v.visit : v \in MappedVisitors}
    /\ output[1] # "Err"

ImageUnderTable ==
    /\ Len(calls) = pc - 1
    /\ \A i \in 1..(pc - 1) :
        /\ calls[i].prim = PrimOf(program[i].visit)
        /\ calls[i].field = VisitorOf(program[i].visit).field

C10_StrictNonStrictDiffer ==
    \A t \in {"i32", "i64", "f32", "f64"}, sfx \in {"_s", "_u", ""} :
        \A p \in { <<"ge", "gt">>, <<"le", "lt">> } :
            (Visited /\ Last.visit = "visit_" \o t \o "_" \o p[1] \o sfx) =>
                /\ calls # <<>>
                /\ LastCall.prim # PrimOf("visit_" \o t \o "_" \o p[2] \o sfx)

(***************************************************************************)
(* Claims about the selector.                                              *)
(***************************************************************************)
RECURSIVE SplitOn(_, _)
SplitOn(str, c) ==
    IF \A i \in 1..Len(str) : str[i] # c THEN <<str>>
    ELSE LET i == CHOOSE j \in 1..Len(str) : str[j] = c /\ \A k \in 1..(j - 1) : str[k] # c
         IN  <<SubSeq(str, 1, i - 1)>> \o SplitOn(SubSeq(str, i + 1, Len(str)), c)

Count(str, c) == Cardinality({i \in 1..Len(str) : str[i] = c})

\* C5: signature() is the name, "(", the parameter types in declaration order
\* separated by single commas, and ")": n entries for n parameters, nothing
\* between the parentheses for none, no argument names and no return type
C5_SignatureShape ==
    sigOut # <<>> =>
        LET n == Len(abi.inputs)
            l == Len(abi.name)
            inner == SubSeq(sigOut, l + 2, Len(sigOut) - 1)
        IN  /\ Len(sigOut) >= l + 2
            /\ SubSeq(sigOut, 1, l) = abi.name
            /\ sigOut[l + 1] = "("
            /\ sigOut[Len(sigOut)] = ")"
            /\ Count(sigOut, "(") = 1
            /\ Count(sigOut, ")") = 1
            /\ Count(sigOut, ",") = IF n = 0 THEN 0 ELSE n - 1
            /\ n = 0 => inner = <<>>
            /\ n > 0 => /\ Len(SplitOn(inner, ",")) = n
                        /\ \A i \in 1..n : SplitOn(inner, ",")[i] = abi.inputs[i].ty

C5_Witness ==
    /\ sigOut # <<>>
    /\ Len(abi.inputs) = 2
    /\ abi.inputs[1].ty # abi.inputs[2].ty

RunRevert == [name |-> <<"r", "u", "n", "_", "r", "e", "v", "e", "r", "t">>, inputs |-> <<>>]

\* C6: selector() is the first 4 bytes of the 32-byte Keccak-256 digest of the
\* bytes of signature(), 4 bytes whatever the signature's length; for
\* run_revert() they are d9 60 a3 10
C6_SelectorIsDigestPrefix ==
    selOut # <<>> =>
        LET d == Digests[as_bytes(signature(abi))]
        IN  /\ Len(d) = 32
            /\ Len(selOut) = 4
            /\ \A i \in 1..4 : selOut[i] = d[i] /\ selOut[i] \in Byte
            /\ abi = RunRevert => selOut = <<217, 96, 163, 16>>

C6_Witness ==
    /\ selOut # <<>>
    /\ Len(selOut) = 4
    /\ Len(as_bytes(signature(abi))) > Rate

SameKey(a, b) ==
    /\ a.name = b.name
    /\ Len(a.inputs) = Len(b.inputs)
    /\ \A i \in 1..Len(a.inputs) : a.inputs[i].ty = b.inputs[i].ty

BothDone == other # NoOther /\ sigOut # <<>> /\ selOut # <<>>

\* C7 as stated: descriptors with the same name and parameter types have the
\* same selector, and descriptors that differ in either have different selectors
C7_SelectorInjective ==
    BothDone =>
        /\ SameKey(abi, other.abi) => selOut = other.sel
        /\ ~SameKey(abi, other.abi) => selOut # other.sel

\* C7 amended: descriptors with the same name and parameter types have the same
\* selector, and descriptors that differ in either have different signatures
C7_SelectorOfNameAndTypes ==
    BothDone =>
        /\ SameKey(abi, other.abi) => selOut = other.sel /\ sigOut = other.sig
        /\ ~SameKey(abi, other.abi) => sigOut # other.sig

C7_Witness ==
    /\ BothDone
    /\ abi # other.abi
    /\ SameKey(abi, other.abi)
    /\ selOut = other.sel

====
